---- MODULE Spec2Model ----
(***************************************************************************)
(* Model of parsons/ngpvan/codes.py: the Codes client of the NGPVAN        *)
(* '/codes' end points.  The client holds one field, self.connection.      *)
(* Every method builds a url and a parameter mapping and hands them to     *)
(* the connection (request or request_paginate).  The connection is an     *)
(* external collaborator: it records what it is asked and either returns   *)
(* a value or raises.                                                      *)
(*                                                                         *)
(* Python values are modelled as records [type, val]:                      *)
(*   None, str, int and bool carry their repr in val; a list carries the   *)
(*   sequence of its items.  A dict is a function from its keys.           *)
(***************************************************************************)
EXTENDS Integers, Sequences, FiniteSets, TLC

VARIABLES
    connection,    \* self.connection: the client's only field
    call_count,    \* number of requests the connection has been asked
    ncalls,        \* number of method calls made on the client
    last_call      \* the last method call: op, args, the requests it sent,
                   \* the connection's answer and the caller's result

vars == <<connection, call_count, ncalls, last_call>>

----------------------------------------------------------------------------
(* Bounds of the model *)

MaxCalls == 2      \* method calls in one behaviour
MaxEntities == 2   \* length of a supported_entities list
MaxJson == 2       \* length of a JSON array answered by the remote

----------------------------------------------------------------------------
(* Python values *)

None == [type |-> "NoneType", val |-> "None"]
PyStr(s) == [type |-> "str", val |-> s]
PyInt(s) == [type |-> "int", val |-> s]
PyBool(s) == [type |-> "bool", val |-> s]
PyList(items) == [type |-> "list", val |-> items]

\* A parameter the caller did not pass: the def's default is bound to it.
Omitted == [type |-> "omitted", val |-> ""]

Default(arg, dflt) == IF arg.type = "omitted" THEN dflt ELSE arg

Dict(f) == [type |-> "dict", val |-> f]

\* Python truth value testing, as used by `if x:`.
Truthy(v) ==
    CASE v.type = "NoneType" -> FALSE
      [] v.type = "str" -> v.val # ""
      [] v.type = "int" -> v.val # "0"
      [] v.type = "bool" -> v.val = "True"
      [] v.type = "list" -> Len(v.val) > 0
      [] v.type = "dict" -> DOMAIN v.val # {}
      [] OTHER -> TRUE

\* Sequences over S of length at most n.
SeqUpTo(S, n) == UNION {[1..k -> S] : k \in 0..n}

\* Sequences without repeated elements.
Distinct(s) == \A i, j \in 1..Len(s) : i # j => s[i] # s[j]

----------------------------------------------------------------------------
(* Inputs *)

BaseUri == "https://api.securevan.com/v4/"

Names == {None, PyStr("a")}
FalsyNames == {PyStr("")}
ParentCodeIds == {None, PyInt("1")}
FalsyParentCodeIds == {PyInt("0")}
Descriptions == {None, PyStr("d")}
CodeTypes == {None, PyStr("Tag")}
CodeIds == {"1", "2"}
UpdateCodeIds == {"1"}
CreateCodeTypes == {Omitted, PyStr("Tag")}
Filters == {None, PyStr("f")}
PageSizes == {Omitted, PyInt("50")}

\* The docstring's two example associations, and one that carries the
\* three flags and a start_time as well.
EventEntity ==
    [name |-> PyStr("Event"), is_searchable |-> PyBool("True"),
     is_applicable |-> PyBool("False")]
ContactsEntity ==
    [name |-> PyStr("Contacts"), is_searchable |-> PyBool("False"),
     is_applicable |-> PyBool("True"), start_time |-> PyStr("12-31-2018T13:00:00")]
LocationsEntity ==
    [name |-> PyStr("Locations"), start_time |-> PyStr("12-31-2018T13:00:00"),
     end_time |-> PyStr("12-31-2018T14:00:00")]

Entities == {EventEntity, ContactsEntity, LocationsEntity}

SupportedEntitiesArgs ==
    {None} \cup {PyList(s) : s \in {t \in SeqUpTo(Entities, MaxEntities) : Distinct(t)}}

\* What the connection can answer.
ReturnValues == {"r1"}
ConnectionErrors == {"HTTPError404"}
JsonItems == {"Tag", "SourceCode"}
JsonArrays == SeqUpTo(JsonItems, MaxJson)

Returns(v) == [kind |-> "return", value |-> v, json |-> <<>>]
ReturnsJson(a) == [kind |-> "return", value |-> "response", json |-> a]
Raises(e) == [kind |-> "raise", value |-> e, json |-> <<>>]

Responses == {Returns(v) : v \in ReturnValues} \cup {Raises(e) : e \in ConnectionErrors}
JsonResponses == {ReturnsJson(a) : a \in JsonArrays} \cup {Raises(e) : e \in ConnectionErrors}

----------------------------------------------------------------------------
(* Results of a method call *)

NoTable == [header |-> <<>>, rows |-> <<>>]

Returned(v) == [kind |-> "return", value |-> v, table |-> NoTable]
ReturnedTable(t) == [kind |-> "return", value |-> "Table", table |-> t]
Raised(e) == [kind |-> "raise", value |-> e, table |-> NoTable]

\* As Propagate, under a handler that swallows the connection's exception.
PropagateSwallowed(resp) ==
    IF resp.kind = "raise" THEN Returned("None") ELSE Returned(resp.value)

\* The caller's view of what the connection answered: its return value, or
\* the exception it raised propagating through the method.
Propagate(resp) ==
    IF resp.kind = "raise" THEN Raised(resp.value) ELSE Returned(resp.value)

----------------------------------------------------------------------------
(* The client *)

NoAnswer == [kind |-> "none", value |-> "", json |-> <<>>]

\* connection.request(url, req_type=..., post_data=..., raw=...) and
\* connection.request_paginate(url, args=...), as the connection is asked.
request(url, req_type, post_data, raw) ==
    [method |-> req_type, url |-> url, args |-> None, post_data |-> post_data,
     raw |-> raw, paginate |-> FALSE]

request_paginate(url, args) ==
    [method |-> "GET", url |-> url, args |-> args, post_data |-> None,
     raw |-> FALSE, paginate |-> TRUE]

\* A method call that ends: it asked the connection the requests of sent,
\* got answer to the last of them, and the caller sees result.
Ends(op, args, sent, answer, result) ==
    /\ ncalls' = ncalls + 1
    /\ call_count' = call_count + Len(sent)
    /\ last_call' = [op |-> op, args |-> args, sent |-> sent,
                     answer |-> answer, result |-> result]
    /\ UNCHANGED connection

Init ==
    /\ connection = [uri |-> BaseUri]
    /\ call_count = 0
    /\ ncalls = 0
    /\ last_call = [op |-> "__init__", args |-> <<>>, sent |-> <<>>,
                    answer |-> NoAnswer, result |-> Returned("None")]

\* As get_codes_args, keeping only the entries whose value is not None.
get_codes_args_non_null(name, supported_entities, parent_code_id, code_type, page_size) ==
    LET all == ("name" :> name) @@ ("supportedEntities" :> supported_entities)
                 @@ ("parentCodeId" :> parent_code_id) @@ ("codeType" :> code_type)
                 @@ ("$top" :> page_size)
    IN  [k \in {f \in DOMAIN all : all[f] # None} |-> all[k]]

get_codes_args(name, supported_entities, parent_code_id, code_type, page_size) ==
    ("name" :> name) @@ ("supportedEntities" :> supported_entities)
      @@ ("parentCodeId" :> parent_code_id) @@ ("codeType" :> code_type)
      @@ ("$top" :> page_size)

get_codes ==
    \E name \in Filters, supported_entities \in Filters,
       parent_code_id \in Filters, code_type \in Filters,
       page_size_arg \in PageSizes, resp \in Responses :
        LET page_size == Default(page_size_arg, PyInt("200"))
            args == get_codes_args(name, supported_entities, parent_code_id,
                                   code_type, page_size)
            url == connection.uri \o "codes"
        IN  /\ ncalls < MaxCalls
            /\ Ends("get_codes",
                    [name |-> name, supported_entities |-> supported_entities,
                     parent_code_id |-> parent_code_id, code_type |-> code_type,
                     page_size |-> page_size_arg],
                    <<request_paginate(url, Dict(args))>>, resp, Propagate(resp))

\* As get_code, keeping the url it built in the connection.
get_code_keeps_url ==
    \E code_id \in CodeIds, resp \in Responses :
        LET url == connection.uri \o "codes/" \o code_id
        IN  /\ ncalls < MaxCalls
            /\ ncalls' = ncalls + 1
            /\ call_count' = call_count + 1
            /\ connection' = [connection EXCEPT !.uri = url]
            /\ last_call' = [op |-> "get_code", args |-> [code_id |-> code_id],
                             sent |-> <<request(url, "GET", None, FALSE)>>,
                             answer |-> resp, result |-> Propagate(resp)]

get_code ==
    \E code_id \in CodeIds, resp \in Responses :
        LET url == connection.uri \o "codes/" \o code_id
        IN  /\ ncalls < MaxCalls
            /\ Ends("get_code", [code_id |-> code_id],
                    <<request(url, "GET", None, FALSE)>>, resp, Propagate(resp))

\* petl.fromcolumns(cols, header=header): row i holds the i-th item of every
\* column, a column that is too short giving the missing value None.
fromcolumns(cols, header) ==
    LET lens == {Len(cols[j]) : j \in 1..Len(cols)}
        n == IF lens = {} THEN 0 ELSE CHOOSE m \in lens : \A k \in lens : k <= m
    IN  [header |-> header,
         rows |-> [i \in 1..n |->
                     [j \in 1..Len(cols) |->
                        IF i <= Len(cols[j]) THEN cols[j][i] ELSE "None"]]]

\* parsons.etl.table.Table(petl_table)
Table(lst) == lst

\* As code_types_table, with the header of get_code_supported_entities.
code_types_table_pasted(json) ==
    Table(fromcolumns(<<json>>, <<"supported_entities">>))

code_types_table(json) == Table(fromcolumns(<<json>>, <<"code_type">>))

get_code_types ==
    \E resp \in JsonResponses :
        LET url == connection.uri \o "codeTypes"
        IN  /\ ncalls < MaxCalls
            /\ Ends("get_code_types", <<>>,
                    <<request(url, "GET", None, TRUE)>>, resp,
                    IF resp.kind = "raise" THEN Raised(resp.value)
                    ELSE ReturnedTable(code_types_table(resp.json)))

\* The keys the comprehension reads of every association, in the order it
\* reads them.
EntityKeys == <<"name", "is_searchable", "is_applicable">>

HasEntityKeys(s) == \A k \in 1..Len(EntityKeys) : EntityKeys[k] \in DOMAIN s

\* The KeyError the comprehension raises on items: the first key missing of
\* the first association that misses one.
EntityKeyError(items) ==
    LET i == CHOOSE a \in 1..Len(items) :
                 /\ ~HasEntityKeys(items[a])
                 /\ \A b \in 1..(a - 1) : HasEntityKeys(items[b])
        k == CHOOSE a \in 1..Len(EntityKeys) :
                 /\ EntityKeys[a] \notin DOMAIN items[i]
                 /\ \A b \in 1..(a - 1) : EntityKeys[b] \in DOMAIN items[i]
    IN  "KeyError: " \o EntityKeys[k]

\* As se_of, reading is_applicable for both flags.
se_of_one_flag(supported_entities) ==
    LET items == supported_entities.val
    IN  IF \A i \in 1..Len(items) : HasEntityKeys(items[i])
        THEN [ok |-> TRUE, error |-> "",
              list |-> PyList([i \in 1..Len(items) |->
                          [name |-> items[i]["name"],
                           isSearchable |-> items[i]["is_applicable"],
                           is_applicable |-> items[i]["is_applicable"]]])]
        ELSE [ok |-> FALSE, error |-> EntityKeyError(items), list |-> None]

\* As se_of, reading every key with s.get(key): a missing key gives None.
se_of_get(supported_entities) ==
    LET items == supported_entities.val
        get(s, k) == IF k \in DOMAIN s THEN s[k] ELSE None
    IN  [ok |-> TRUE, error |-> "",
         list |-> PyList([i \in 1..Len(items) |->
                     [name |-> get(items[i], "name"),
                      isSearchable |-> get(items[i], "is_searchable"),
                      is_applicable |-> get(items[i], "is_applicable")]])]

\* [{'name': s['name'], 'isSearchable': s['is_searchable'],
\*   'is_applicable': s['is_applicable']} for s in supported_entities]:
\* the list, or the KeyError of the first s[...] that fails.
se_of(supported_entities) ==
    LET items == supported_entities.val
    IN  IF \A i \in 1..Len(items) : HasEntityKeys(items[i])
        THEN [ok |-> TRUE, error |-> "",
              list |-> PyList([i \in 1..Len(items) |->
                          [name |-> items[i]["name"],
                           isSearchable |-> items[i]["is_searchable"],
                           is_applicable |-> items[i]["is_applicable"]]])]
        ELSE [ok |-> FALSE, error |-> EntityKeyError(items), list |-> None]

\* As create_post_data, setting a key only under `if <field>:`, as
\* update_code does.
create_post_data_if_set(name, parent_code_id, description, code_type, se) ==
    LET field == ("parentCodeId" :> parent_code_id) @@ ("name" :> name)
                   @@ ("codeType" :> code_type) @@ ("supportedEntities" :> se)
                   @@ ("description" :> description)
    IN  [k \in {f \in DOMAIN field : Truthy(field[f])} |-> field[k]]

create_post_data(name, parent_code_id, description, code_type, se) ==
    [parentCodeId |-> parent_code_id, name |-> name, codeType |-> code_type,
     supportedEntities |-> se, description |-> description]

create_code ==
    \E name \in Names, parent_code_id \in ParentCodeIds,
       description \in Descriptions, code_type_arg \in CreateCodeTypes,
       supported_entities \in SupportedEntitiesArgs :
        LET code_type == Default(code_type_arg, PyStr("SourceCode"))
            url == connection.uri \o "codes"
            args == [name |-> name, parent_code_id |-> parent_code_id,
                     description |-> description, code_type |-> code_type_arg,
                     supported_entities |-> supported_entities]
        IN  /\ ncalls < MaxCalls
            /\ IF Truthy(supported_entities)
               THEN LET se == se_of(supported_entities)
                        post_data == create_post_data(name, parent_code_id,
                                         description, code_type, se.list)
                    IN  IF se.ok
                        THEN \E resp \in Responses :
                                Ends("create_code", args,
                                     <<request(url, "POST", Dict(post_data), FALSE)>>,
                                     resp, Propagate(resp))
                        ELSE Ends("create_code", args, <<>>, NoAnswer,
                                  Raised(se.error))
               \* post_data reads se, which was never bound
               ELSE Ends("create_code", args, <<>>, NoAnswer,
                         Raised("UnboundLocalError: se"))

\* post_data = {}, then a key is set under each `if <field>:`
update_post_data(name, parent_code_id, description, code_type) ==
    LET field == ("name" :> name) @@ ("parentCodeId" :> parent_code_id)
                   @@ ("codeType" :> code_type) @@ ("description" :> description)
    IN  [k \in {f \in DOMAIN field : Truthy(field[f])} |-> field[k]]

update_code ==
    \E code_id \in UpdateCodeIds, name \in Names \cup FalsyNames,
       parent_code_id \in ParentCodeIds \cup FalsyParentCodeIds,
       description \in Descriptions,
       code_type \in CodeTypes,
       supported_entities \in SupportedEntitiesArgs :
        LET url == connection.uri \o "codes/" \o code_id
            args == [code_id |-> code_id, name |-> name,
                     parent_code_id |-> parent_code_id,
                     description |-> description, code_type |-> code_type,
                     supported_entities |-> supported_entities]
            fields == update_post_data(name, parent_code_id, description, code_type)
            se == IF Truthy(supported_entities) THEN se_of(supported_entities)
                  ELSE [ok |-> TRUE, error |-> "", list |-> None]
            post_data == IF Truthy(supported_entities)
                         THEN fields @@ ("supportedEntities" :> se.list)
                         ELSE fields
        IN  /\ ncalls < MaxCalls
            /\ IF se.ok
               THEN \E resp \in Responses :
                       Ends("update_code", args,
                            <<request(url, "PUT", Dict(post_data), FALSE)>>,
                            resp, Propagate(resp))
               ELSE Ends("update_code", args, <<>>, NoAnswer, Raised(se.error))

delete_code ==
    \E code_id \in CodeIds, resp \in Responses :
        LET url == connection.uri \o "codes/" \o code_id
        IN  /\ ncalls < MaxCalls
            /\ Ends("delete_code", [code_id |-> code_id],
                    <<request(url, "DELETE", None, TRUE)>>, resp, Propagate(resp))

supported_entities_table(json) ==
    Table(fromcolumns(<<json>>, <<"supported_entities">>))

get_code_supported_entities ==
    \E resp \in JsonResponses :
        LET url == connection.uri \o "codes/supportedEntities"
        IN  /\ ncalls < MaxCalls
            /\ Ends("get_code_supported_entities", <<>>,
                    <<request(url, "GET", None, TRUE)>>, resp,
                    IF resp.kind = "raise" THEN Raised(resp.value)
                    ELSE ReturnedTable(supported_entities_table(resp.json)))

Next ==
    \/ get_codes
    \/ get_code
    \/ get_code_types
    \/ create_code
    \/ update_code
    \/ delete_code
    \/ get_code_supported_entities

Spec == Init /\ [][Next]_vars

----------------------------------------------------------------------------
(* Properties *)

\* The request the last call sent first, and its JSON body.
FirstSent == last_call.sent[1]
Body == FirstSent.post_data.val

IsCall(op) == ncalls > 0 /\ last_call.op = op
ReachedConnection == Len(last_call.sent) > 0

\* The filter of get_codes that a query key carries.
FilterOf(key) ==
    CASE key = "name" -> last_call.args.name
      [] key = "supportedEntities" -> last_call.args.supported_entities
      [] key = "parentCodeId" -> last_call.args.parent_code_id
      [] key = "codeType" -> last_call.args.code_type

FilterKeys == {"name", "supportedEntities", "parentCodeId", "codeType"}

\* C1, as claimed: the mapping get_codes hands to request_paginate holds a
\* filter's key only if that filter is not None, and holds no None value.
C1_OnlyNonNullFiltersSent ==
    IsCall("get_codes") =>
        \A i \in 1..Len(last_call.sent) :
            LET args == last_call.sent[i].args.val
            IN  /\ \A k \in FilterKeys \cap DOMAIN args : FilterOf(k) # None
                /\ \A k \in DOMAIN args : args[k] # None

\* C1, as amended: get_codes sends one paginated GET whose mapping always
\* holds the four filter keys and $top; every filter key carries the filter
\* as passed, None included, and $top carries page_size (200 by default).
C1_AllFilterKeysSent ==
    IsCall("get_codes") =>
        /\ Len(last_call.sent) = 1
        /\ FirstSent.paginate
        /\ FirstSent.args.type = "dict"
        /\ DOMAIN FirstSent.args.val = FilterKeys \cup {"$top"}
        /\ \A k \in FilterKeys : FirstSent.args.val[k] = FilterOf(k)
        /\ FirstSent.args.val["$top"] =
              IF last_call.args.page_size = Omitted THEN PyInt("200")
              ELSE last_call.args.page_size

\* A get_codes call with one filter given and the others None.
C1_Witness ==
    /\ IsCall("get_codes")
    /\ last_call.args.name = None
    /\ last_call.args.supported_entities = None
    /\ last_call.args.parent_code_id = None
    /\ last_call.args.code_type # None
    /\ ReachedConnection

\* The body key of an optional field of update_code.
UpdateFields == {"name", "parent_code_id", "code_type", "description",
                 "supported_entities"}

BodyKeyOf(field) ==
    CASE field = "name" -> "name"
      [] field = "parent_code_id" -> "parentCodeId"
      [] field = "code_type" -> "codeType"
      [] field = "description" -> "description"
      [] field = "supported_entities" -> "supportedEntities"

\* C2: the key set of the PUT body of update_code is exactly the set of the
\* optional fields passed as something other than None, falsy values
\* ('', 0, []) included.
C2_BodyKeysAreSuppliedFields ==
    (IsCall("update_code") /\ ReachedConnection) =>
        DOMAIN Body =
            {BodyKeyOf(f) : f \in {g \in UpdateFields : last_call.args[g] # None}}

\* C3: create_code with supported_entities None or empty still sends exactly
\* one POST to 'codes' and does not fail before the request is made.
C3_CreateWithoutEntitiesIsSent ==
    (IsCall("create_code") /\ ~Truthy(last_call.args.supported_entities)) =>
        /\ Len(last_call.sent) = 1
        /\ FirstSent.method = "POST"
        /\ FirstSent.url = connection.uri \o "codes"

\* A non-empty supported_entities list whose associations all carry name,
\* is_searchable and is_applicable.
WellFormedEntities(v) ==
    /\ v.type = "list"
    /\ Len(v.val) > 0
    /\ \A i \in 1..Len(v.val) :
          {"name", "is_searchable", "is_applicable"} \subseteq DOMAIN v.val[i]

\* C4: for a well-formed non-empty supported_entities list, the
\* supportedEntities array of the body of create_code and update_code has
\* the length and order of the input, and its i-th element is exactly
\* {name, isSearchable, is_applicable} of the i-th input.
C4_SupportedEntitiesConverted ==
    ((IsCall("create_code") \/ IsCall("update_code"))
        /\ WellFormedEntities(last_call.args.supported_entities)) =>
        LET in == last_call.args.supported_entities.val
        IN  /\ Len(last_call.sent) = 1
            /\ "supportedEntities" \in DOMAIN Body
            /\ Body["supportedEntities"].type = "list"
            /\ LET out == Body["supportedEntities"].val
               IN  /\ Len(out) = Len(in)
                   /\ \A i \in 1..Len(in) :
                         /\ DOMAIN out[i] = {"name", "isSearchable", "is_applicable"}
                         /\ out[i]["name"] = in[i]["name"]
                         /\ out[i]["isSearchable"] = in[i]["is_searchable"]
                         /\ out[i]["is_applicable"] = in[i]["is_applicable"]

\* An update_code call with two associations, the first carrying a
\* start_time as well, whose body holds both in order.
C4_Witness ==
    /\ IsCall("update_code")
    /\ last_call.args.supported_entities = PyList(<<ContactsEntity, EventEntity>>)
    /\ ReachedConnection
    /\ Len(Body["supportedEntities"].val) = 2
    /\ Body["supportedEntities"].val[1]["name"] = PyStr("Contacts")

\* The method and path of the interface table for the last call.
TableMethod ==
    CASE last_call.op \in {"get_codes", "get_code", "get_code_types",
                           "get_code_supported_entities"} -> "GET"
      [] last_call.op = "create_code" -> "POST"
      [] last_call.op = "update_code" -> "PUT"
      [] last_call.op = "delete_code" -> "DELETE"

TablePath ==
    CASE last_call.op \in {"get_codes", "create_code"} -> "codes"
      [] last_call.op \in {"get_code", "update_code", "delete_code"} ->
             "codes/" \o last_call.args.code_id
      [] last_call.op = "get_code_types" -> "codeTypes"
      [] last_call.op = "get_code_supported_entities" -> "codes/supportedEntities"

\* C5: every call sends exactly one request, with the method and path of
\* the interface table appended to the connection's base uri, so that after
\* N calls the connection has seen exactly N requests.
C5_OneRequestPerCall ==
    /\ call_count = ncalls
    /\ ncalls > 0 =>
          /\ Len(last_call.sent) = 1
          /\ FirstSent.method = TableMethod
          /\ FirstSent.url = connection.uri \o TablePath
          /\ FirstSent.paginate = (last_call.op = "get_codes")

\* C6: a call that reached the connection sent one request and no second
\* one; if the connection raised, the caller sees exactly that error and no
\* result; if it returned, get_code, create_code, update_code and
\* delete_code return exactly the value it returned.
C6_AnswerPassedThrough ==
    (ncalls > 0 /\ ReachedConnection) =>
        /\ Len(last_call.sent) = 1
        /\ last_call.answer.kind \in {"return", "raise"}
        /\ last_call.answer.kind = "raise" =>
              last_call.result = Raised(last_call.answer.value)
        /\ (/\ last_call.answer.kind = "return"
            /\ last_call.op \in {"get_code", "create_code", "update_code",
                                 "delete_code"}) =>
              last_call.result = Returned(last_call.answer.value)

\* A delete_code call the connection failed with not-found.
C6_Witness ==
    /\ IsCall("delete_code")
    /\ ReachedConnection
    /\ last_call.answer = Raises("HTTPError404")
    /\ last_call.result = Raised("HTTPError404")

\* The header get_code_types and get_code_supported_entities give their table.
TableHeader ==
    IF last_call.op = "get_code_types" THEN <<"code_type">>
    ELSE <<"supported_entities">>

\* C7: for every JSON array the remote returns to get_code_types (resp.
\* get_code_supported_entities), the empty one included, the result is a
\* table of one column headed 'code_type' (resp. 'supported_entities') with
\* one row per element, in array order, holding the element.
C7_ArrayWrappedAsColumn ==
    ((IsCall("get_code_types") \/ IsCall("get_code_supported_entities"))
        /\ last_call.answer.kind = "return") =>
        LET json == last_call.answer.json
            t == last_call.result.table
        IN  /\ last_call.result.kind = "return"
            /\ t.header = TableHeader
            /\ Len(t.rows) = Len(json)
            /\ \A i \in 1..Len(json) : t.rows[i] = <<json[i]>>

\* A get_code_types call answered with an array of two different elements.
C7_Witness ==
    /\ IsCall("get_code_types")
    /\ last_call.answer.json = <<"Tag", "SourceCode">>
    /\ last_call.result.table.rows = << <<"Tag">>, <<"SourceCode">> >>

\* C8: no call, failing or not, changes the client's only field, the
\* connection reference; and a call with the operation and arguments of the
\* call before it sends the very same requests.
C8_ClientHoldsNoState ==
    [][/\ connection' = connection
       /\ (/\ last_call'.op = last_call.op
           /\ last_call'.args = last_call.args) => last_call'.sent = last_call.sent
      ]_vars

\* A second call that reached the connection, with the client's field still
\* as constructed.
C8_Witness ==
    /\ ncalls >= 2
    /\ call_count >= 2
    /\ ReachedConnection
    /\ connection = [uri |-> BaseUri]

\* C9: the POST body of a create_code call that reaches the connection has
\* exactly the keys parentCodeId, name, codeType, supportedEntities and
\* description, an unsupplied one carried as None; codeType is 'SourceCode'
\* when the caller omits code_type and the caller's value otherwise.
C9_CreateBodyHasFiveKeys ==
    (IsCall("create_code") /\ ReachedConnection) =>
        /\ DOMAIN Body = {"parentCodeId", "name", "codeType",
                          "supportedEntities", "description"}
        /\ Body["parentCodeId"] = last_call.args.parent_code_id
        /\ Body["name"] = last_call.args.name
        /\ Body["description"] = last_call.args.description
        /\ Body["codeType"] =
              IF last_call.args.code_type = Omitted THEN PyStr("SourceCode")
              ELSE last_call.args.code_type

\* A create_code call that reached the connection with code_type omitted and
\* name, parent_code_id and description not supplied.
C9_Witness ==
    /\ IsCall("create_code")
    /\ ReachedConnection
    /\ last_call.args.code_type = Omitted
    /\ last_call.args.name = None
    /\ last_call.args.parent_code_id = None
    /\ last_call.args.description = None
    /\ Body["codeType"] = PyStr("SourceCode")

\* A non-empty supported_entities list with an association that lacks name,
\* is_searchable or is_applicable.
MalformedEntities(v) ==
    /\ v.type = "list"
    /\ Len(v.val) > 0
    /\ \E i \in 1..Len(v.val) :
          ~({"name", "is_searchable", "is_applicable"} \subseteq DOMAIN v.val[i])

====
